---- MODULE Spec2Model ----
(***************************************************************************)
(* Model of skdownscale/pointwise_models/bcsd.py: the BCSD estimators      *)
(* BcsdPrecipitation and BcsdTemperature (fit / predict on one instance).  *)
(*                                                                         *)
(* A one-column time series (pandas DataFrame) is a sequence of rows       *)
(* [t |-> timestamp, v |-> value], kept in row order.  Values are exact    *)
(* rationals [n |-> numerator, d |-> denominator]; d = 0 holds the         *)
(* non-finite floats: n = 1 is inf, n = -1 is -inf, n = 0 is NaN.          *)
(* Timestamps are records [year, month, day] of a small calendar.          *)
(* An instance is the record of its attributes; an attribute __init__ or   *)
(* fit has not assigned is [set |-> FALSE].  A method is an operator that  *)
(* returns the instance as the call leaves it, how the call ended ("ok" or *)
(* the exception) and the value returned.                                  *)
(***************************************************************************)
EXTENDS Integers, Sequences, FiniteSets

\* ------------------------------------------------------------------ bounds
\* the longest input series
MaxLen == 2

\* the calendar of the model: one year of two months of two days each, so
\* that day of month and day of year differ (Feb 1 is day 3 of the year)
Years == {1}
Months == {1, 2}
Days == {1, 2}

\* the values a target sample takes, and the offsets of a source series
\* from its target
InputValues == {0, 1}
Biases == {1}

\* ------------------------------------------------------- program constants
\* x.rolling(9, center=True, min_periods=1)
RollingWindow == 9
MinPeriods == 1

\* the padding of a day-of-year bucket, in days on each side (scaled to the
\* model calendar), and the fewest samples a quantile mapper can be fit on
PadOffset == 1
MinSamples == 1

\* ---------------------------------------------------------------- calendar
MonthsPerYear == Cardinality(Months)

DaysPerMonth == Cardinality(Days)

DaysPerYear == MonthsPerYear * DaysPerMonth

Timestamps == [year : Years, month : Months, day : Days]

Ord(x) ==
  ((x.year - 1) * MonthsPerYear + (x.month - 1)) * DaysPerMonth + x.day

dayofyear(x) == (x.month - 1) * DaysPerMonth + x.day

MONTH_GROUPER(x) == x.month

DAY_GROUPER(x) == x.day

\* --------------------------------------------------------------- rationals
Abs(i) == IF i < 0 THEN -i ELSE i

RECURSIVE Gcd(_, _)
Gcd(a, b) == IF b = 0 THEN a ELSE Gcd(b, a % b)

NaN == [n |-> 0, d |-> 0]

IsNaN(a) == a.d = 0 /\ a.n = 0

\* inf or -inf
IsInf(a) == a.d = 0 /\ a.n # 0

Sign(i) == IF i > 0 THEN 1 ELSE IF i < 0 THEN -1 ELSE 0

\* n / d in lowest terms; a zero d gives inf, -inf or NaN by the sign of n
Rat(n, d) ==
  IF d = 0 THEN [n |-> Sign(n), d |-> 0]
  ELSE LET g == Gcd(Abs(n), Abs(d))
           s == IF d < 0 THEN -1 ELSE 1
       IN  [n |-> (s * n) \div g, d |-> (s * d) \div g]

FromInt(i) == [n |-> i, d |-> 1]

\* a + b as for floats: inf + (-inf) is NaN, inf + x is inf
RAdd(a, b) ==
  IF IsNaN(a) \/ IsNaN(b) THEN NaN
  ELSE IF IsInf(a) /\ IsInf(b) THEN (IF a.n = b.n THEN a ELSE NaN)
  ELSE IF IsInf(a) THEN a
  ELSE IF IsInf(b) THEN b
  ELSE Rat(a.n * b.d + b.n * a.d, a.d * b.d)

RNeg(a) == [n |-> 0 - a.n, d |-> a.d]

RSub(a, b) == RAdd(a, RNeg(b))

\* a / b as numpy divides floats: x / 0 is inf or -inf by the sign of x,
\* 0 / 0 and inf / inf are NaN, x / inf is 0 (every zero of the model is +0.0)
RDiv(a, b) ==
  IF IsNaN(a) \/ IsNaN(b) THEN NaN
  ELSE IF IsInf(a) /\ IsInf(b) THEN NaN
  ELSE IF IsInf(a) THEN [n |-> (IF b.n < 0 THEN 0 - a.n ELSE a.n), d |-> 0]
  ELSE IF IsInf(b) THEN FromInt(0)
  ELSE Rat(a.n * b.d, a.d * b.n)

\* a < b; every comparison with NaN is false, -inf is below and inf above
\* every finite value
RLess(a, b) ==
  /\ ~IsNaN(a)
  /\ ~IsNaN(b)
  /\ IF IsInf(a) /\ IsInf(b) THEN a.n < b.n
     ELSE IF IsInf(a) THEN a.n < 0
     ELSE IF IsInf(b) THEN b.n > 0
     ELSE a.n * b.d < b.n * a.d

\* a <= 0
RNonPositive(a) == ~IsNaN(a) /\ a.n <= 0

\* ------------------------------------------------------------------ frames
RECURSIVE SumV(_)
SumV(df) ==
  IF df = <<>> THEN FromInt(0) ELSE RAdd(df[1].v, SumV(Tail(df)))

\* DataFrame.mean() of a one-column frame; the mean of no rows is NaN
Mean(df) ==
  IF df = <<>> THEN NaN ELSE RDiv(SumV(df), FromInt(Len(df)))

Index(df) == {df[i].t : i \in 1..Len(df)}

\* the value stored at label t (unique labels)
At(df, t) == df[CHOOSE i \in 1..Len(df) : df[i].t = t].v

\* pd.concat over a sequence of frames
RECURSIVE concat(_)
concat(dfs) == IF dfs = <<>> THEN <<>> ELSE dfs[1] \o concat(Tail(dfs))

RECURSIVE SortedKeys(_)
SortedKeys(S) ==
  IF S = {} THEN <<>>
  ELSE LET m == CHOOSE m \in S : \A k \in S : m <= k
       IN  <<m>> \o SortedKeys(S \ {m})

\* DataFrame.sort_index(): rows by ascending timestamp, equal labels in
\* their existing order
sort_index(df) ==
  LET ords == SortedKeys({Ord(df[i].t) : i \in 1..Len(df)})
  IN  concat([k \in 1..Len(ords) |-> SelectSeq(df, LAMBDA r : Ord(r.t) = ords[k])])

\* a - b and a + b on frames that carry the same labels (index-aligned)
FrameSub(a, b) == [i \in 1..Len(a) |-> [t |-> a[i].t, v |-> RSub(a[i].v, At(b, a[i].t))]]

FrameAdd(a, b) == [i \in 1..Len(a) |-> [t |-> a[i].t, v |-> RAdd(a[i].v, At(b, a[i].t))]]

\* group - c and group / c for a scalar c
SubScalar(df, c) == [i \in 1..Len(df) |-> [t |-> df[i].t, v |-> RSub(df[i].v, c)]]

DivScalar(df, c) == [i \in 1..Len(df) |-> [t |-> df[i].t, v |-> RDiv(df[i].v, c)]]

\* ---------------------------------------------------------------- grouping
\* df.groupby(by) for a key function by (a function on the labels): one
\* (key, subset) pair per key that occurs, keys ascending, each subset in
\* row order
groupby(df, by) ==
  LET ks == SortedKeys({by[df[i].t] : i \in 1..Len(df)})
  IN  [j \in 1..Len(ks) |->
         [key |-> ks[j], group |-> SelectSeq(df, LAMBDA r : by[r.t] = ks[j])]]

\* the days of year that bucket n draws from: n padded by PadOffset days on
\* each side, wrapping around the year
PaddedDays(n) ==
  {((n - 1 + o + DaysPerYear) % DaysPerYear) + 1 : o \in (0 - PadOffset)..PadOffset}

\* PaddedDOYGrouper(df): iterating yields one (key, subset) pair per day of
\* year, the subset being every row whose day of year is in the padded window
PaddedDOYGrouper(df) ==
  [n \in 1..DaysPerYear |->
     [key |-> n, group |-> SelectSeq(df, LAMBDA r : dayofyear(r.t) \in PaddedDays(n))]]

\* the bin pd.Grouper(freq="M") files a label in: its calendar month, one
\* bin per month of each year (the key is the bin's ordinal).  A bin holding
\* no row is a group of its own in pandas; a gapless series leaves none
GrouperBin(x) == (x.year - 1) * MonthsPerYear + x.month

\* df.groupby(cls) for a class cls: pandas calls cls on every label, so each
\* row is keyed by an object of its own.  An object equals only itself; it
\* is named by the call that made it and the row it was made for
groupby_class(df, made_by) ==
  [j \in 1..Len(df) |->
     [key |-> [object |-> j, made_by |-> made_by], group |-> <<df[j]>>]]

\* whether df.groupby(cls) yields those per-row groups or raises (the objects
\* cannot be made from a label, or cannot be sorted) rests on the class and
\* on pandas: either can happen
ClassGroupbyOutcomes == {"per_row", "TypeError"}

\* groups.mean(): the climatology, a table key -> mean of the subset
GroupMeans(groups) ==
  [k \in {groups[j].key : j \in 1..Len(groups)} |->
     Mean(groups[CHOOSE j \in 1..Len(groups) : groups[j].key = k].group)]

\* ---------------------------------------------------- external collaborators
ensure_samples_features(obj) == obj

\* a fitted check that forgets the mappers
fit_attributes_climatology_only == {"y_climo_"}

_fit_attributes == {"y_climo_", "quantile_mappers_"}

\* check_is_fitted(self, attributes): passes when every attribute exists
check_is_fitted(self, attributes) == \A a \in attributes : self[a].set

RECURSIVE SortValues(_)
SortValues(vs) ==
  IF vs = <<>> THEN <<>>
  ELSE LET i == CHOOSE i \in 1..Len(vs) :
                  \A j \in 1..Len(vs) : ~RLess(vs[j], vs[i])
           rest == [k \in 1..(Len(vs) - 1) |-> IF k < i THEN vs[k] ELSE vs[k + 1]]
       IN  <<vs[i]>> \o SortValues(rest)

\* QuantileMapper.fit raises on a subset too small to fit
QuantileMapperFitRaises(data) == Len(data) < MinSamples

\* QuantileMapper(**qm_kwargs).fit(data): keeps the empirical distribution of
\* the training subset
QuantileMapperFit(data) ==
  [cdf |-> SortValues([i \in 1..Len(data) |-> data[i].v])]

\* mapper.transform(data): each value goes to the training value at the same
\* empirical quantile (its rank within the query subset)
QuantileMapperTransform(mapper, data) ==
  LET n == Len(data)
      m == Len(mapper.cdf)
      rank(i) == Cardinality({j \in 1..n : RLess(data[j].v, data[i].v)})
      pos(i) == 1 + ((rank(i) * (m - 1)) \div (IF n > 1 THEN n - 1 ELSE 1))
  IN  [i \in 1..n |-> mapper.cdf[pos(i)]]

\* ---------------------------------------------------------------- BcsdBase
\* an attribute that has not been assigned, and one that has
Unset == [set |-> FALSE, val |-> <<>>]

Attr(v) == [set |-> TRUE, val |-> v]

Raise(self, err) == [self |-> self, outcome |-> err, out |-> <<>>]

Return(self, out) == [self |-> self, outcome |-> "ok", out |-> out]

Min(S) == CHOOSE m \in S : \A k \in S : m <= k

\* the errors fit can raise: the climatology check of BcsdPrecipitation.fit,
\* and a mapper fit on a subset it cannot use
InvalidClimatology == "ValueError: Invalid value in target climatology"

InsufficientData == "ValueError: insufficient data"

\* the values the time_grouper argument takes: a key function of the
\* module, a pd.Grouper object, the string that selects the padded
\* day-of-year grouper, or a pandas frequency string
Callables == {"MONTH_GROUPER", "DAY_GROUPER"}

DailyNasaNex == "daily_nasa-nex"

FrequencyStrings == {"M"}

TimeGrouperArgs ==
  [type : {"function"}, value : Callables]
    \cup [type : {"str"}, value : {DailyNasaNex} \cup FrequencyStrings]
    \cup [type : {"Grouper"}, value : FrequencyStrings]

\* BcsdBase.__init__: a string other than "daily_nasa-nex" becomes a
\* pd.Grouper and leaves timestep, upsample and climate_trend_grouper
\* unassigned; anything that is not a string is filed as "monthly"
BcsdInit(model, time_grouper, return_anoms, climate_trend_grouper) ==
  LET isstr == time_grouper.type = "str"
      daily == isstr /\ time_grouper.value = DailyNasaNex
  IN  [model |-> model,
       time_grouper |->
         IF ~isstr THEN [kind |-> time_grouper.type, name |-> time_grouper.value]
         ELSE IF daily THEN [kind |-> "class", name |-> "PaddedDOYGrouper"]
         ELSE [kind |-> "Grouper", name |-> time_grouper.value],
       climate_trend_grouper |->
         IF daily THEN Attr(climate_trend_grouper) ELSE Unset,
       timestep |->
         IF ~isstr THEN Attr("monthly") ELSE IF daily THEN Attr("daily") ELSE Unset,
       upsample |->
         IF ~isstr THEN Attr(FALSE) ELSE IF daily THEN Attr(TRUE) ELSE Unset,
       return_anoms |-> return_anoms,
       y_climo_ |-> Unset, quantile_mappers_ |-> Unset, x_climo |-> Unset]

\* the key function a callable grouper computes on the labels
KeyFunction(name) ==
  [x \in Timestamps |->
     IF name = "MONTH_GROUPER" THEN MONTH_GROUPER(x) ELSE DAY_GROUPER(x)]

\* the key DataFrame.groupby(by) files each label under, for a key function
\* or a pd.Grouper
ByKey(by) ==
  IF by.kind = "Grouper" THEN [x \in Timestamps |-> GrouperBin(x)]
  ELSE KeyFunction(by.name)

\* self.climate_trend
climate_trend == KeyFunction("MONTH_GROUPER")

\* the name of the call that makes key objects.  Objects of different calls
\* are different objects: a predict never meets its own objects in a table,
\* and a fit that raises after storing y_climo_ leaves objects next to those
\* of the fit that stored quantile_mappers_, so successive fits alternate
\* between two names
MadeBy(self, call) ==
  IF call = "predict" THEN "predict"
  ELSE IF \E k \in DOMAIN self.quantile_mappers_.val : k.made_by = "fit"
  THEN "refit"
  ELSE "fit"

\* df.groupby(self.time_grouper) as BcsdPrecipitation calls it: by key
\* function, by pd.Grouper bin, or on the PaddedDOYGrouper class, where
\* class_groupby is the outcome that call takes
groupby_time_grouper(self, df, call, class_groupby) ==
  IF self.time_grouper.kind # "class"
  THEN Return(self, groupby(df, ByKey(self.time_grouper)))
  ELSE IF class_groupby = "TypeError" THEN Raise(self, "TypeError")
  ELSE Return(self, groupby_class(df, MadeBy(self, call)))

\* how _create_groups ends: reading self.timestep fails when __init__ never
\* assigned it, and a timestep other than the two known ones is rejected
create_groups_outcome(self) ==
  IF ~self.timestep.set THEN "AttributeError"
  ELSE IF self.timestep.val \notin {"monthly", "daily"} THEN "TypeError"
  ELSE "ok"

\* the groups _create_groups returns when it returns
create_groups(self, df, trend) ==
  IF self.timestep.val = "monthly"
  THEN groupby(df, ByKey(self.time_grouper))
  ELSE IF trend THEN groupby(df, KeyFunction(self.climate_trend_grouper.val))
  ELSE PaddedDOYGrouper(df)

GroupOf(groups, k) ==
  groups[CHOOSE j \in 1..Len(groups) : groups[j].key = k].group

\* the dict is cleared, then filled key by key; a mapper fit that raises
\* leaves the entries stored so far
qm_fit_by_group(self, groups) ==
  LET bad == {j \in 1..Len(groups) :
                QuantileMapperFitRaises(ensure_samples_features(groups[j].group))}
      stop == IF bad = {} THEN Len(groups) + 1 ELSE Min(bad)
      mappers == [k \in {groups[j].key : j \in 1..(stop - 1)} |->
                    QuantileMapperFit(ensure_samples_features(GroupOf(groups, k)))]
      after == [self EXCEPT !.quantile_mappers_ = Attr(mappers)]
  IN  IF bad = {} THEN Return(after, <<>>) ELSE Raise(after, InsufficientData)

\* a transform that passes over the groups no mapper was fit for
qm_transform_skipping_unfitted(self, groups) ==
  LET have == SelectSeq(groups, LAMBDA g : g.key \in DOMAIN self.quantile_mappers_.val)
      dfs == [j \in 1..Len(have) |->
                LET q == QuantileMapperTransform(
                           self.quantile_mappers_.val[have[j].key],
                           ensure_samples_features(have[j].group))
                IN  [i \in 1..Len(have[j].group) |->
                       [t |-> have[j].group[i].t, v |-> q[i]]]]
  IN  Return(self, sort_index(concat(dfs)))

\* a transform that takes each mapper out of the dict as it uses it
qm_transform_consuming_mappers(self, groups) ==
  IF \E j \in 1..Len(groups) :
       groups[j].key \notin DOMAIN self.quantile_mappers_.val
  THEN Raise(self, "KeyError")
  ELSE LET used == {groups[j].key : j \in 1..Len(groups)}
           dfs == [j \in 1..Len(groups) |->
                     LET q == QuantileMapperTransform(
                                self.quantile_mappers_.val[groups[j].key],
                                ensure_samples_features(groups[j].group))
                     IN  [i \in 1..Len(groups[j].group) |->
                            [t |-> groups[j].group[i].t, v |-> q[i]]]]
           left == [k \in (DOMAIN self.quantile_mappers_.val) \ used |->
                      self.quantile_mappers_.val[k]]
       IN  Return([self EXCEPT !.quantile_mappers_ = Attr(left)],
                  sort_index(concat(dfs)))

qm_transform_by_group(self, groups) ==
  IF ~self.quantile_mappers_.set THEN Raise(self, "AttributeError")
  ELSE IF \E j \in 1..Len(groups) :
            groups[j].key \notin DOMAIN self.quantile_mappers_.val
  THEN Raise(self, "KeyError")
  ELSE LET dfs == [j \in 1..Len(groups) |->
                     LET data == ensure_samples_features(groups[j].group)
                         qmapped == QuantileMapperTransform(
                                      self.quantile_mappers_.val[groups[j].key], data)
                     IN  [i \in 1..Len(groups[j].group) |->
                            [t |-> groups[j].group[i].t, v |-> qmapped[i]]]]
       IN  Return(self, sort_index(concat(dfs)))

\* ------------------------------------------------------- BcsdPrecipitation
\* self.y_climo_.values.min() <= 0; the minimum of a table with a NaN is NaN
InvalidTargetClimatology(climo) ==
  /\ \A k \in DOMAIN climo : ~IsNaN(climo[k])
  /\ \E k \in DOMAIN climo : RNonPositive(climo[k])

\* a fit that fits the mappers before it validates the climatology
BcsdPrecipitation_fit_mappers_first(self, X, y, class_groupby) ==
  LET y_groups == groupby_time_grouper(self, y, "fit", class_groupby)
      climo == GroupMeans(y_groups.out)
      s1 == [self EXCEPT !.y_climo_ = Attr(climo)]
      fitted == qm_fit_by_group(s1, y_groups.out)
  IN  IF y_groups.outcome # "ok" THEN y_groups
      ELSE IF InvalidTargetClimatology(climo)
      THEN Raise(fitted.self, InvalidClimatology)
      ELSE fitted

BcsdPrecipitation_fit(self, X, y, class_groupby) ==
  LET y_groups == groupby_time_grouper(self, y, "fit", class_groupby)
      climo == GroupMeans(y_groups.out)
      s1 == [self EXCEPT !.y_climo_ = Attr(climo)]
  IN  IF y_groups.outcome # "ok" THEN y_groups
      ELSE IF InvalidTargetClimatology(climo)
      THEN Raise(s1, InvalidClimatology)
      ELSE qm_fit_by_group(s1, y_groups.out)

calc_ratio_anoms(self, obj, climatology, class_groupby) ==
  LET grouped == groupby_time_grouper(self, obj, "predict", class_groupby)
      groups == grouped.out
  IN  IF grouped.outcome # "ok" THEN grouped
      ELSE IF \E j \in 1..Len(groups) : groups[j].key \notin DOMAIN climatology
      THEN Raise(self, "KeyError")
      ELSE LET dfs == [j \in 1..Len(groups) |->
                         DivScalar(groups[j].group, climatology[groups[j].key])]
               out == sort_index(concat(dfs))
           IN  IF Len(obj) = Len(out) THEN Return(self, out)
               ELSE Raise(self, "AssertionError")

BcsdPrecipitation_predict(self, X0, class_groupby) ==
  IF ~check_is_fitted(self, _fit_attributes) THEN Raise(self, "NotFittedError")
  ELSE LET X == ensure_samples_features(X0)
           X_groups == groupby_time_grouper(self, X, "predict", class_groupby)
           Xqm == qm_transform_by_group(self, X_groups.out)
       IN  IF X_groups.outcome # "ok" THEN X_groups
           ELSE IF Xqm.outcome # "ok" THEN Xqm
           ELSE IF self.return_anoms
           THEN calc_ratio_anoms(Xqm.self, Xqm.out, self.y_climo_.val, class_groupby)
           ELSE Xqm

\* --------------------------------------------------------- BcsdTemperature
BcsdTemperature_fit(self, X, y) ==
  LET s1 == [self EXCEPT !.x_climo = Attr(GroupMeans(create_groups(self, X, FALSE)))]
      y_groups == create_groups(s1, y, FALSE)
      s2 == [s1 EXCEPT !.y_climo_ = Attr(GroupMeans(y_groups))]
  IN  IF create_groups_outcome(self) # "ok"
      THEN Raise(self, create_groups_outcome(self))
      ELSE qm_fit_by_group(s2, y_groups)

remove_climatology(self, obj, climatology, trend) ==
  LET groups == create_groups(self, obj, trend)
  IN  IF create_groups_outcome(self) # "ok"
      THEN Raise(self, create_groups_outcome(self))
      ELSE IF \E j \in 1..Len(groups) : groups[j].key \notin DOMAIN climatology
      THEN Raise(self, "KeyError")
      ELSE LET dfs == [j \in 1..Len(groups) |->
                         SubScalar(groups[j].group, climatology[groups[j].key])]
               out == sort_index(concat(dfs))
           IN  IF Len(obj) = Len(out) THEN Return(self, out)
               ELSE Raise(self, "AssertionError")

\* x.rolling(9, center=True, min_periods=1).mean() on one group
rolling_func(x) ==
  LET half == (RollingWindow - 1) \div 2
      lo(i) == IF i - half < 1 THEN 1 ELSE i - half
      hi(i) == IF i + half > Len(x) THEN Len(x) ELSE i + half
  IN  [i \in 1..Len(x) |->
         [t |-> x[i].t,
          v |-> IF hi(i) - lo(i) + 1 < MinPeriods THEN NaN
                ELSE Mean(SubSeq(x, lo(i), hi(i)))]]

\* X.groupby(self.climate_trend).apply(rolling_func): same labels as X
GroupedRollingMean(X) ==
  LET groups == groupby(X, climate_trend)
  IN  sort_index(concat([j \in 1..Len(groups) |-> rolling_func(groups[j].group)]))

BcsdTemperature_predict(self, X0) ==
  IF ~check_is_fitted(self, _fit_attributes) THEN Raise(self, "NotFittedError")
  ELSE IF ~self.x_climo.set THEN Raise(self, "AttributeError")
  ELSE LET X == ensure_samples_features(X0)
           X_rolling_mean == GroupedRollingMean(X)
           X_shift == remove_climatology(self, X_rolling_mean, self.x_climo.val, TRUE)
       IN  IF X_shift.outcome # "ok" THEN X_shift
           ELSE LET X_no_shift == FrameSub(X, X_shift.out)
                    Xqm == qm_transform_by_group(
                             X_shift.self, create_groups(self, X_no_shift, TRUE))
                IN  IF Xqm.outcome # "ok" THEN Xqm
                    ELSE LET X_qm_with_shift == FrameAdd(X_shift.out, Xqm.out)
                         IN  IF self.return_anoms
                             THEN remove_climatology(Xqm.self, X_qm_with_shift,
                                                     self.y_climo_.val, FALSE)
                             ELSE Return(Xqm.self, X_qm_with_shift)

\* ------------------------------------------------------------------ inputs
RECURSIVE SortedStamps(_)
SortedStamps(S) ==
  IF S = {} THEN <<>>
  ELSE LET m == CHOOSE m \in S : \A k \in S : Ord(m) <= Ord(k)
       IN  <<m>> \o SortedStamps(S \ {m})

\* the sampling instants of a record, in time order
Timeline == SortedStamps(Timestamps)

\* duplicate-free, time-ordered, gapless series of 1..MaxLen samples
SeriesSet ==
  LET line == Timeline
  IN  UNION {
        UNION {
          { [i \in 1..len |-> [t |-> line[start + i - 1], v |-> FromInt(vals[i])]] :
              vals \in [1..len -> InputValues] } :
          start \in 1..(Len(line) - len + 1) } :
        len \in 1..(IF MaxLen < Len(line) THEN MaxLen ELSE Len(line)) }

\* a source series on the labels of y, offset from y by a constant bias
Biased(y, b) == [i \in 1..Len(y) |-> [t |-> y[i].t, v |-> RAdd(y[i].v, FromInt(b))]]

\* ------------------------------------------------------------ state machine
VARIABLES self, last, hist

vars == <<self, last, hist>>

\* either estimator, built with any of the argument values
Init ==
  /\ \E model \in {"precipitation", "temperature"},
        time_grouper \in TimeGrouperArgs,
        return_anoms \in BOOLEAN,
        climate_trend_grouper \in Callables :
       self = BcsdInit(model, time_grouper, return_anoms, climate_trend_grouper)
  /\ last = [op |-> "init", X |-> <<>>, class_groupby |-> "per_row",
             outcome |-> "ok", out |-> <<>>]
  /\ hist = [ever_fit |-> FALSE, last_fit |-> "none"]

fit(s, X, y, class_groupby) ==
  IF s.model = "precipitation" THEN BcsdPrecipitation_fit(s, X, y, class_groupby)
  ELSE BcsdTemperature_fit(s, X, y)

predict(s, X, class_groupby) ==
  IF s.model = "precipitation" THEN BcsdPrecipitation_predict(s, X, class_groupby)
  ELSE BcsdTemperature_predict(s, X)

\* the outcomes a groupby on self.time_grouper can take in a call on s
GroupbyOutcomes(s) ==
  IF s.model = "precipitation" /\ s.time_grouper.kind = "class"
  THEN ClassGroupbyOutcomes ELSE {"per_row"}

Fit ==
  \E y \in SeriesSet, b \in Biases, class_groupby \in GroupbyOutcomes(self) :
    \E r \in {fit(self, Biased(y, b), y, class_groupby)} :
        /\ self' = r.self
        /\ last' = [op |-> "fit", X |-> <<>>, class_groupby |-> class_groupby,
                    outcome |-> r.outcome, out |-> <<>>]
        /\ hist' = [ever_fit |-> hist.ever_fit \/ r.outcome = "ok",
                    last_fit |-> r.outcome]

Predict ==
  \E X \in SeriesSet, class_groupby \in GroupbyOutcomes(self) :
    \E r \in {predict(self, X, class_groupby)} :
        /\ self' = r.self
        /\ last' = [op |-> "predict", X |-> X, class_groupby |-> class_groupby,
                    outcome |-> r.outcome, out |-> r.out]
        /\ UNCHANGED hist

Next == Fit \/ Predict

Spec == Init /\ [][Next]_vars

\* ---------------------------------------------------------- claim helpers
Keys(groups) == {groups[j].key : j \in 1..Len(groups)}

\* the groups predict forms from a query to look up mappers (none when the
\* grouping itself raises)
PredictGroups(s, X) ==
  IF s.model = "precipitation"
  THEN groupby_time_grouper(s, X, "predict", last.class_groupby).out
  ELSE IF create_groups_outcome(s) # "ok" THEN <<>>
  ELSE create_groups(s, X, TRUE)

\* the keys under which fit's grouping files the sample labelled t
FitKeysOf(s, X, t) ==
  LET groups == IF s.model = "precipitation"
                THEN groupby_time_grouper(s, X, "predict", last.class_groupby).out
                ELSE IF create_groups_outcome(s) # "ok" THEN <<>>
                ELSE create_groups(s, X, FALSE)
  IN  {groups[j].key : j \in {j \in 1..Len(groups) : t \in Index(groups[j].group)}}

\* some key that predict looks up for X is absent from the table it is
\* looked up in
LookupMisses(s, X) ==
  LET ks == Keys(PredictGroups(s, X))
  IN  \/ ~(ks \subseteq DOMAIN s.quantile_mappers_.val)
      \/ s.model = "temperature" /\ ~(ks \subseteq DOMAIN s.x_climo.val)
      \/ /\ s.return_anoms
         /\ s.model = "precipitation"
         /\ ~(ks \subseteq DOMAIN s.y_climo_.val)
      \/ /\ s.return_anoms
         /\ s.model = "temperature"
         /\ ~(Keys(create_groups(s, X, FALSE)) \subseteq DOMAIN s.y_climo_.val)

\* every sample of the query gets a group key, and every key has a mapper
\* and a climatology entry
KeysFitted(s, X) ==
  LET groups == PredictGroups(s, X)
      ks == Keys(groups)
  IN  /\ \A i \in 1..Len(X) :
           \E j \in 1..Len(groups) : X[i].t \in Index(groups[j].group)
      /\ ks \subseteq DOMAIN s.quantile_mappers_.val
      /\ ks \subseteq DOMAIN s.y_climo_.val
      /\ s.model = "temperature" => ks \subseteq DOMAIN s.x_climo.val

TimeOrdered(df) == \A i \in 1..(Len(df) - 1) : Ord(df[i].t) < Ord(df[i + 1].t)

MeanOfValues(vs) == Mean([i \in 1..Len(vs) |-> [t |-> 0, v |-> vs[i]]])

Fitted == hist.last_fit = "ok"

\* ------------------------------------------------------------------ claims

\* C1: predict on a fitted model, for a time-ordered query whose group keys
\* were all fitted, returns a series with exactly the query's labels, one
\* sample per query sample, in timestamp order.
C1_RoundTripShape ==
  (last.op = "predict" /\ Fitted /\ KeysFitted(self, last.X)) =>
    /\ last.outcome = "ok"
    /\ Len(last.out) = Len(last.X)
    /\ Index(last.out) = Index(last.X)
    /\ TimeOrdered(last.out)

\* C2: in BcsdTemperature the key under which predict looks up a sample's
\* mapper and source climatology is a key under which fit's grouping files
\* that sample, in every configuration.
C2_GroupsAlign ==
  (last.op = "predict" /\ Fitted /\ self.model = "temperature") =>
    LET groups == PredictGroups(self, last.X)
    IN  \A j \in 1..Len(groups) :
          \A t \in Index(groups[j].group) :
            groups[j].key \in FitKeysOf(self, last.X, t)

\* C3: a BcsdPrecipitation.fit that raises the invalid-climatology error
\* neither sets nor changes y_climo_.
C3_RejectedFitStoresNoClimatology ==
  [][(last'.op = "fit" /\ last'.outcome = InvalidClimatology)
       => self'.y_climo_ = self.y_climo_]_vars

\* C4: a BcsdPrecipitation.fit that raises the invalid-climatology error
\* aborts before any mapper is fit: quantile_mappers_ is neither assigned nor
\* modified.
C4_RejectedFitFitsNoMapper ==
  [][(last'.op = "fit" /\ last'.outcome = InvalidClimatology)
       => self'.quantile_mappers_ = self.quantile_mappers_]_vars

C4_Witness ==
  /\ last.op = "fit"
  /\ last.outcome = InvalidClimatology
  /\ self.quantile_mappers_.set
  /\ hist.ever_fit

\* C5: a predict whose query holds a sample whose group key is absent from a
\* table predict looks it up in fails as a whole with a lookup error and
\* returns nothing.
C5_MissingKeyIsHardError ==
  (/\ last.op = "predict"
   /\ check_is_fitted(self, _fit_attributes)
   /\ LookupMisses(self, last.X))
    => (last.outcome = "KeyError" /\ last.out = <<>>)

C5_Witness ==
  /\ last.op = "predict"
  /\ check_is_fitted(self, _fit_attributes)
  /\ Fitted
  /\ LookupMisses(self, last.X)
  /\ KeysFitted(self, SubSeq(last.X, 1, 1))
  /\ last.outcome = "KeyError"

\* C6: predict on an instance that lacks y_climo_ or quantile_mappers_ fails
\* with the not-fitted error and returns nothing.
C6_PredictBeforeFitIsNotFitted ==
  (last.op = "predict" /\ ~(self.y_climo_.set /\ self.quantile_mappers_.set))
    => (last.outcome = "NotFittedError" /\ last.out = <<>>)

C6_Witness ==
  /\ last.op = "predict"
  /\ self.y_climo_.set
  /\ ~self.quantile_mappers_.set
  /\ last.outcome = "NotFittedError"

\* C7: no predict call, successful or failing, changes the instance: the
\* climatologies, the mappers and the configuration stay as fit left them.
C7_PredictIsReadOnly ==
  [][last'.op = "predict" => self' = self]_vars

C7_Witness ==
  /\ last.op = "predict"
  /\ last.outcome = "ok"
  /\ Fitted
  /\ Len(last.X) > 1

\* C8: for a fitted BcsdTemperature and a query whose keys were fitted, the
\* anomaly output plus the target climatology of each sample's group equals
\* the absolute output, sample by sample, in every configuration.
C8_AnomalyConsistency ==
  (last.op = "predict" /\ Fitted /\ self.model = "temperature"
     /\ KeysFitted(self, last.X)) =>
    LET anoms == BcsdTemperature_predict([self EXCEPT !.return_anoms = TRUE], last.X)
        absolute == BcsdTemperature_predict([self EXCEPT !.return_anoms = FALSE], last.X)
    IN  /\ anoms.outcome = "ok"
        /\ absolute.outcome = "ok"
        /\ Len(anoms.out) = Len(absolute.out)
        /\ \A i \in 1..Len(absolute.out) :
             /\ anoms.out[i].t = absolute.out[i].t
             /\ \A k \in FitKeysOf(self, last.X, absolute.out[i].t) :
                  RAdd(anoms.out[i].v, self.y_climo_.val[k]) = absolute.out[i].v

\* C9: whenever a BcsdPrecipitation instance passes the fitted check, its
\* y_climo_ and quantile_mappers_ have the same keys and each climatology
\* entry is the mean of the data its group's mapper was fit on.
C9_ClimatologyMatchesMappers ==
  (self.model = "precipitation" /\ check_is_fitted(self, _fit_attributes)) =>
    /\ DOMAIN self.y_climo_.val = DOMAIN self.quantile_mappers_.val
    /\ \A k \in DOMAIN self.y_climo_.val :
         self.y_climo_.val[k] = MeanOfValues(self.quantile_mappers_.val[k].cdf)

\* C10: after a fit that failed while fitting the mappers, on an instance no
\* fit ever succeeded on, predict is rejected as not fitted.
C10_FailedMapperFitLeavesUnfit ==
  (last.op = "predict" /\ hist.last_fit = InsufficientData /\ ~hist.ever_fit)
    => last.outcome = "NotFittedError"
====
